---- MODULE Spec2Model ----
(***************************************************************************)
(* A model of the hexagonal movement model: the Run data structure         *)
(* (code/classes/run.py), the land cover Map (code/classes/map.py) and the *)
(* run handling of the Grid widget (code/visualisation/grid.py).           *)
(*                                                                         *)
(* A hexagon is the pair <<x, y>> of its doubled coordinates (x + y even). *)
(* hexutil.Hex is a namedtuple, so two hexagons are equal exactly when     *)
(* their coordinates are, whatever land cover is attached to them.         *)
(***************************************************************************)
EXTENDS Integers, Sequences, FiniteSets, TLC

VARIABLES
    hexagons,           \* Run.hexagons of the run under test (SpecRun)
    call,               \* the last call on that run: operation, argument, result
    tiles,              \* Map.tiles: land cover of every tile key
    tree_hexagons,      \* Map.tree_hexagons, in insertion order: <<[id, hex], ...>>
    runs,               \* Grid.runs: run id -> hexagons of the run
    optimal_runs,       \* Grid.optimal_runs: run id -> hexagons of the optimal run
    run_creation_mode,  \* Grid.run_creation_mode
    path,               \* Grid.path
    fov,                \* Grid.fov: the hexagons of the field of view
    event,              \* the last handler: what it was given and what it returned
    search,             \* the path search in progress: frontier, settled hexagons
    current_run_id,     \* Grid.current_run_id
    next_run_uid,       \* Grid.run_uid: the id the next created run gets
    run_list,           \* Model.run_list: the run ids that have an item in the list
    selected_run        \* the run id of the selected list item, 0 when none is

runVars == <<hexagons, call>>
sessionVars == <<search, current_run_id, next_run_uid, run_list, selected_run>>
gridVars ==
    <<tiles, tree_hexagons, runs, optimal_runs, run_creation_mode, path, fov, event,
      sessionVars>>
vars == <<hexagons, call, tiles, tree_hexagons, runs, optimal_runs,
          run_creation_mode, path, fov, event,
          search, current_run_id, next_run_uid, run_list, selected_run>>
restVars == <<runVars, sessionVars>>

-----------------------------------------------------------------------------
(* Bounds of the model. *)

\* The longest run the model lets grow.
MaxLen == 4

\* The coordinates handed to a run under test: 0..RunSpanX by 0..RunSpanY.
RunSpanX == 4
RunSpanY == 1

-----------------------------------------------------------------------------
(* hexutil.Hex *)

IsHex(x, y) == (x + y) % 2 = 0

\* Hex._neighbours, in the library's enumeration order.
NeighbourOffsets ==
    << <<2, 0>>, <<1, 1>>, <<-1, 1>>, <<-2, 0>>, <<-1, -1>>, <<1, -1>> >>

\* Hex.neighbours(): the list of the six direct neighbours.
neighbours(h) ==
    [i \in 1..6 |-> <<h[1] + NeighbourOffsets[i][1], h[2] + NeighbourOffsets[i][2]>>]

\* "hexagon in other.neighbours()"
InNeighbours(h, other) == \E i \in 1..6 : neighbours(other)[i] = h

-----------------------------------------------------------------------------
(* Run (code/classes/run.py). An operation is a function of the hexagon    *)
(* list before the call; it yields the list after it and the return value. *)

Last(s) == s[Len(s)]
Front(s) == SubSeq(s, 1, Len(s) - 1)

add_hexagon_appends_at_first(hs, h) ==
    IF Len(hs) > 0
    THEN IF InNeighbours(h, Last(hs))
         THEN [hexagons |-> Append(hs, h), ret |-> TRUE]
         ELSE IF InNeighbours(h, hs[1])
              THEN [hexagons |-> Append(hs, h), ret |-> TRUE]
              ELSE [hexagons |-> hs, ret |-> FALSE]
    ELSE [hexagons |-> <<h>>, ret |-> TRUE]

add_hexagon_first_before_last(hs, h) ==
    IF Len(hs) > 0
    THEN IF InNeighbours(h, hs[1])
         THEN [hexagons |-> <<h>> \o hs, ret |-> TRUE]
         ELSE IF InNeighbours(h, Last(hs))
              THEN [hexagons |-> Append(hs, h), ret |-> TRUE]
              ELSE [hexagons |-> hs, ret |-> FALSE]
    ELSE [hexagons |-> <<h>>, ret |-> TRUE]

add_hexagon_appends_on_reject(hs, h) ==
    IF Len(hs) > 0
    THEN IF InNeighbours(h, Last(hs))
         THEN [hexagons |-> Append(hs, h), ret |-> TRUE]
         ELSE IF InNeighbours(h, hs[1])
              THEN [hexagons |-> <<h>> \o hs, ret |-> TRUE]
              ELSE [hexagons |-> Append(hs, h), ret |-> FALSE]
    ELSE [hexagons |-> <<h>>, ret |-> TRUE]

add_hexagon(hs, h) ==
    IF Len(hs) > 0
    THEN IF InNeighbours(h, Last(hs))
         THEN [hexagons |-> Append(hs, h), ret |-> TRUE]
         ELSE IF InNeighbours(h, hs[1])
              THEN [hexagons |-> <<h>> \o hs, ret |-> TRUE]
              ELSE [hexagons |-> hs, ret |-> FALSE]
    ELSE [hexagons |-> <<h>>, ret |-> TRUE]

remove_hexagon_sole_element(hs, h) ==
    IF Len(hs) > 0
    THEN IF h = Last(hs)
         THEN [hexagons |-> Front(hs), ret |-> TRUE]
         ELSE IF h = hs[1]
              THEN [hexagons |-> Tail(hs), ret |-> TRUE]
              ELSE [hexagons |-> hs, ret |-> FALSE]
    ELSE [hexagons |-> hs, ret |-> FALSE]

remove_hexagon(hs, h) ==
    IF Len(hs) > 1
    THEN IF h = Last(hs)
         THEN [hexagons |-> Front(hs), ret |-> TRUE]
         ELSE IF h = hs[1]
              THEN [hexagons |-> Tail(hs), ret |-> TRUE]
              ELSE [hexagons |-> hs, ret |-> FALSE]
    ELSE [hexagons |-> hs, ret |-> FALSE]

-----------------------------------------------------------------------------
(* The run under test: a Run() on which add_hexagon and remove_hexagon are *)
(* called with any coordinates.                                            *)

RunCoords ==
    {c \in (0..RunSpanX) \X (0..RunSpanY) : IsHex(c[1], c[2])}

NoCall == [op |-> "init", hexagon |-> <<0, 0>>, ret |-> FALSE, pre |-> <<>>]

\* Run.__init__
RunInit ==
    /\ hexagons = <<>>
    /\ call = NoCall

AddHexagon(h) ==
    LET r == add_hexagon(hexagons, h) IN
    /\ Len(r.hexagons) <= MaxLen
    /\ hexagons' = r.hexagons
    /\ call' = [op |-> "add", hexagon |-> h, ret |-> r.ret, pre |-> hexagons]

RemoveHexagon(h) ==
    LET r == remove_hexagon(hexagons, h) IN
    /\ hexagons' = r.hexagons
    /\ call' = [op |-> "remove", hexagon |-> h, ret |-> r.ret, pre |-> hexagons]

GridIdle ==
    /\ tiles = <<>>
    /\ tree_hexagons = <<>>
    /\ runs = <<>>
    /\ optimal_runs = <<>>
    /\ run_creation_mode = FALSE
    /\ path = <<>>
    /\ fov = {}
    /\ event = [op |-> "init"]

\* Grid.__init__ and Model.__init__: no search runs, no run is current, the
\* first run gets id 1, the run list is empty and nothing is selected in it.
SessionIdle ==
    /\ search = [stage |-> "idle"]
    /\ current_run_id = 0
    /\ next_run_uid = 1
    /\ run_list = {}
    /\ selected_run = 0

InitRun == RunInit /\ GridIdle /\ SessionIdle

NextRun ==
    \/ \E h \in RunCoords : AddHexagon(h) /\ UNCHANGED gridVars
    \/ \E h \in RunCoords : RemoveHexagon(h) /\ UNCHANGED gridVars

SpecRun == InitRun /\ [][NextRun]_vars

-----------------------------------------------------------------------------
(* Claims about Run. *)

\* Lattice adjacency, stated on the coordinates.
Abs(n) == IF n < 0 THEN -n ELSE n
Adjacent(a, b) ==
    \/ Abs(a[1] - b[1]) = 2 /\ a[2] = b[2]
    \/ Abs(a[1] - b[1]) = 1 /\ Abs(a[2] - b[2]) = 1

Contiguous(hs) == \A i \in 1..(Len(hs) - 1) : Adjacent(hs[i], hs[i + 1])

\* C1: after any sequence of add_hexagon and remove_hexagon calls on an empty
\* run, every two consecutive hexagons of the run are lattice-adjacent.
C1_RunContiguous == Contiguous(hexagons)

C1_Witness ==
    /\ call.op = "remove"
    /\ call.ret
    /\ Len(hexagons) >= 3

\* C2: a successful add_hexagon. On an empty run the coordinate becomes the
\* sole element and the call returns true; on a non-empty run a coordinate
\* adjacent to the last element goes to the end (also when it is adjacent to
\* the first element too), otherwise one adjacent to the first element goes to
\* the start; the run grows by exactly one and the prior elements keep their
\* order.
C2_AddSuccess ==
    call.op = "add" =>
        LET pre == call.pre
            h == call.hexagon
            n == Len(call.pre)
        IN  /\ n = 0 => call.ret /\ hexagons = <<h>>
            /\ n > 0 /\ Adjacent(h, pre[n]) =>
                    call.ret /\ hexagons = Append(pre, h)
            /\ n > 0 /\ ~Adjacent(h, pre[n]) /\ Adjacent(h, pre[1]) =>
                    call.ret /\ hexagons = <<h>> \o pre
            /\ call.ret =>
                    /\ Len(hexagons) = n + 1
                    /\ \/ SubSeq(hexagons, 1, n) = pre /\ hexagons[n + 1] = h
                       \/ SubSeq(hexagons, 2, n + 1) = pre /\ hexagons[1] = h

C2_Witness ==
    /\ call.op = "add"
    /\ call.ret
    /\ Len(call.pre) >= 2
    /\ Adjacent(call.hexagon, call.pre[1])
    /\ Adjacent(call.hexagon, Last(call.pre))
    /\ call.pre[1] # Last(call.pre)

\* C3: on a non-empty run add_hexagon rejects a coordinate adjacent to neither
\* the first nor the last element: it returns false and leaves the run as it
\* was.
C3_AddReject ==
    (/\ call.op = "add"
     /\ Len(call.pre) > 0
     /\ ~Adjacent(call.hexagon, call.pre[1])
     /\ ~Adjacent(call.hexagon, Last(call.pre)))
    => (call.ret = FALSE /\ hexagons = call.pre)

C3_Witness ==
    /\ call.op = "add"
    /\ Len(call.pre) >= 2
    /\ ~Adjacent(call.hexagon, call.pre[1])
    /\ ~Adjacent(call.hexagon, Last(call.pre))

\* C4: remove_hexagon removes a coordinate if and only if the run has more
\* than one element and the coordinate is its first or last element; it then
\* removes exactly that endpoint (the last one when both endpoints equal the
\* coordinate); otherwise it returns false and leaves the run as it was. A run
\* that is non-empty before a call is non-empty after it.
C4_Remove ==
    /\ call.op = "remove" =>
        LET pre == call.pre
            h == call.hexagon
            n == Len(call.pre)
        IN  /\ call.ret <=> (n > 1 /\ (h = pre[1] \/ h = pre[n]))
            /\ call.ret /\ h = pre[n] => hexagons = SubSeq(pre, 1, n - 1)
            /\ call.ret /\ h # pre[n] => hexagons = SubSeq(pre, 2, n)
            /\ ~call.ret => hexagons = pre
    /\ call.pre # <<>> => hexagons # <<>>

C4_Witness ==
    /\ call.op = "remove"
    /\ call.ret
    /\ call.hexagon = call.pre[1]
    /\ call.hexagon = Last(call.pre)

\* C5: in every state of the run and for every coordinate, at most one of
\* add_hexagon(coord) and remove_hexagon(coord) succeeds on that state.
C5_ToggleExclusive ==
    \A h \in RunCoords :
        ~(add_hexagon(hexagons, h).ret /\ remove_hexagon(hexagons, h).ret)

-----------------------------------------------------------------------------
(* Map (code/classes/map.py)                                               *)

\* Horizontal and vertical number of hexagons of the grid (Map.num_hor,
\* Map.num_ver, computed from the size of the image).
num_hor == 2
num_ver == 2

TileKey_even_rows_only(i) ==
    LET col == i % num_hor
        row == i \div num_hor
    IN <<col * 2, row>>

\* Map.__init__, the loop over the tiles: tile i lies in column i % num_hor of
\* row i // num_hor; its key is (col*2, row) on an even row and
\* (col*2 + 1, row) on an odd one.
TileKey(i) ==
    LET col == i % num_hor
        row == i \div num_hor
        even == row % 2
    IN IF even = 0 THEN <<col * 2, row>> ELSE <<col * 2 + 1, row>>

\* The keys of Map.tiles.
TileKeys == {TileKey(i) : i \in 0..(num_hor * num_ver - 1)}

\* Map.land_covers: 1 grass, 2 bushes, 3 water, 4 path, 5 blank.
LandCovers == 1..5

\* The hexagons the model looks at: the grid and one ring around it.
Lattice ==
    {h \in (-2..(2 * num_hor + 1)) \X (-1..num_ver) : IsHex(h[1], h[2])}

get_tile_default_grass(hexagon) ==
    IF hexagon \notin DOMAIN tiles THEN 1 ELSE tiles[hexagon]

\* Map.get_tile: the land cover of the hexagon, 5 (blank) when it has no tile.
get_tile(hexagon) ==
    IF hexagon \notin DOMAIN tiles THEN 5 ELSE tiles[hexagon]

is_passable_outside_grid(hexagon) ==
    IF hexagon \in DOMAIN tiles /\ tiles[hexagon] \in {3, 5} THEN FALSE ELSE TRUE

is_passable_water_only(hexagon) ==
    LET land_cover == get_tile(hexagon) IN
    IF land_cover = 3 THEN FALSE ELSE TRUE

\* Map.is_passable
is_passable(hexagon) ==
    LET land_cover == get_tile(hexagon) IN
    IF land_cover = 3 \/ land_cover = 5 THEN FALSE ELSE TRUE

cost_bushes_as_path(hexagon) ==
    LET land_cover == get_tile(hexagon) IN
    IF land_cover = 1 THEN 3
    ELSE IF land_cover = 2 THEN 2
    ELSE IF land_cover = 4 THEN 2
    ELSE 0

\* Map.cost, doubled to stay in the integers: grass 1.5, bushes 10, path 1.
\* 0 stands for Python's None, returned for water and blank.
cost(hexagon) ==
    LET land_cover == get_tile(hexagon) IN
    IF land_cover = 1 THEN 3
    ELSE IF land_cover = 2 THEN 20
    ELSE IF land_cover = 4 THEN 2
    ELSE 0

\* Python's False, returned by get_tree_number; like False it is falsy and is
\* no tree number.
False == ""

\* "hexagon not in self.tree_hexagons.values()"
TreeValues == {tree_hexagons[i].hex : i \in 1..Len(tree_hexagons)}

\* Map.get_tree_number: the first key, in insertion order, whose hexagon is
\* the given one.
get_tree_number(hexagon) ==
    IF hexagon \notin TreeValues
    THEN False
    ELSE LET i == CHOOSE i \in 1..Len(tree_hexagons) :
                    /\ tree_hexagons[i].hex = hexagon
                    /\ \A j \in 1..(i - 1) : tree_hexagons[j].hex # hexagon
         IN tree_hexagons[i].id

\* self.map.tree_hexagons[tree_number]
TreeHexagon(tree_number) ==
    LET i == CHOOSE i \in 1..Len(tree_hexagons) : tree_hexagons[i].id = tree_number
    IN tree_hexagons[i].hex

-----------------------------------------------------------------------------
(* hexutil.Hex.find_path: the weighted shortest path search of the hexagon *)
(* library. The set of the paths it may return: every cheapest path from   *)
(* start to goal that only enters passable hexagons, paying cost(h) for    *)
(* each hexagon entered; the empty set when there is none (NoPathFound).   *)

Infinity == 20 * Cardinality(Lattice) + 1

Min(S) == CHOOSE x \in S : \A y \in S : x <= y

RECURSIVE Relax(_, _, _)
Relax(d, start, k) ==
    LET R == DOMAIN d
        next == [h \in R |->
                    IF h = start THEN 0
                    ELSE Min({d[h]} \cup
                             {d[n] + cost(h) : n \in {m \in R : d[m] < Infinity
                                                        /\ InNeighbours(m, h)}})]
    IN IF k = 0 \/ next = d THEN d ELSE Relax(next, start, k - 1)

\* The cost of the cheapest path from start to every hexagon that can be
\* entered.
Distances(start) ==
    LET R == {h \in Lattice : is_passable(h)} \cup {start}
    IN Relax([h \in R |-> IF h = start THEN 0 ELSE Infinity], start, Cardinality(R))

RECURSIVE PathsTo(_, _, _)
PathsTo(d, start, h) ==
    IF h = start
    THEN {<<start>>}
    ELSE UNION {{Append(p, h) : p \in PathsTo(d, start, n)} :
                    n \in {m \in DOMAIN d : /\ d[m] < Infinity
                                            /\ InNeighbours(m, h)
                                            /\ d[m] + cost(h) = d[h]}}

find_path(start, goal) ==
    LET d == Distances(start) IN
    IF goal \notin DOMAIN d \/ d[goal] >= Infinity
    THEN {}
    ELSE PathsTo(d, start, goal)

-----------------------------------------------------------------------------
(* Grid (code/visualisation/grid.py): the runs of the session and their    *)
(* optimal runs. A Run object is the record of its run_id and its          *)
(* hexagons (its name plays no part here).                                 *)

\* Grid.run_uid after construction: the id of the first run created.
run_uid == 1

\* Run(uid)
Run(uid) == [run_id |-> uid, hexagons |-> <<>>]

\* run.add_hexagon(hexagon), its return value dropped
RunAdd(run, hexagon) ==
    [run EXCEPT !.hexagons = add_hexagon(run.hexagons, hexagon).hexagons]

\* "tree_number not in visited_trees"
InList(x, s) == \E i \in 1..Len(s) : s[i] = x

RECURSIVE TreesInIndexOrder(_, _)
TreesInIndexOrder(hs, visited_trees) ==
    LET touched == {i \in 1..Len(tree_hexagons) : InList(tree_hexagons[i].hex, hs)}
    IN IF \A i \in touched : InList(tree_hexagons[i].id, visited_trees)
       THEN visited_trees
       ELSE LET i == CHOOSE i \in touched :
                        /\ ~InList(tree_hexagons[i].id, visited_trees)
                        /\ \A j \in touched : j < i =>
                                InList(tree_hexagons[j].id, visited_trees)
            IN TreesInIndexOrder(hs, Append(visited_trees, tree_hexagons[i].id))

\* create_optimal_run, first loop: the numbers of the trees visited in the
\* run, each once, in the order the run reaches them.
RECURSIVE CollectTrees(_, _)
CollectTrees(hs, visited_trees) ==
    IF hs = <<>>
    THEN visited_trees
    ELSE LET tree_number == get_tree_number(Head(hs)) IN
         CollectTrees(Tail(hs),
                      IF tree_number # False /\ ~InList(tree_number, visited_trees)
                      THEN Append(visited_trees, tree_number)
                      ELSE visited_trees)

\* "for hexagon in ...: optimal_run.add_hexagon(custom_hex)"
RECURSIVE AddAll(_, _)
AddAll(run, new) ==
    IF new = <<>> THEN run ELSE AddAll(RunAdd(run, Head(new)), Tail(new))

AppendLeg_keeps_first(optimal_run, p) == AddAll(optimal_run, p)

\* create_optimal_run, inner loop: every hexagon of the path besides the first
\* one is added to the optimal run.
AppendLeg(optimal_run, p) == AddAll(optimal_run, Tail(p))

\* create_optimal_run, second loop, from the tree reached so far: the path to
\* each visited tree in turn. An outcome is the optimal run built, the paths
\* the pathfinder returned, and the exception that ended the loop, if any
\* (KeyError: a hexagon of the path is no key of tiles).
RECURSIVE RouteLegs(_, _, _, _)
RouteLegs(current_position, trees, optimal_run, legs) ==
    IF trees = <<>>
    THEN {[raised |-> "none", optimal_run |-> optimal_run, legs |-> legs]}
    ELSE LET tree_hexagon == TreeHexagon(Head(trees))
             found == find_path(current_position, tree_hexagon)
         IN IF found = {}
            THEN {[raised |-> "NoPathFound", optimal_run |-> optimal_run,
                   legs |-> legs]}
            ELSE UNION {
                    IF \E i \in 2..Len(p) : p[i] \notin DOMAIN tiles
                    THEN {[raised |-> "KeyError", optimal_run |-> optimal_run,
                           legs |-> Append(legs, p)]}
                    ELSE RouteLegs(tree_hexagon, Tail(trees),
                                   AppendLeg(optimal_run, p), Append(legs, p)) :
                    p \in found}

\* Grid.create_optimal_run up to its last line: the outcomes for a run.
create_optimal_run(run_id) ==
    LET run == runs[run_id]
        visited_trees == CollectTrees(run.hexagons, <<>>)
        current_position == run.hexagons[1]
    IN RouteLegs(current_position, visited_trees,
                 RunAdd(Run(run_id), current_position), <<>>)

StoreOptimalRun_stores_partial(run_id, outcome) ==
    (run_id :> outcome.optimal_run) @@ optimal_runs

\* Grid.create_optimal_run, last line: "self.optimal_runs[run_id] =
\* optimal_run", not reached when an exception ended the loop.
StoreOptimalRun(run_id, outcome) ==
    IF outcome.raised = "none"
    THEN (run_id :> outcome.optimal_run) @@ optimal_runs
    ELSE optimal_runs

-----------------------------------------------------------------------------
(* The session: one map and tree index, a run created on a selected        *)
(* hexagon, modified and saved.                                            *)

\* At most this many tiles of a map are water; the others are grass.
MaxWater == 2

\* The tree numbers of the ribbon file.
TreeIds == {"A", "B"}

Maps ==
    {t \in [TileKeys -> {1, 3}] :
        Cardinality({k \in TileKeys : t[k] = 3}) <= MaxWater}

RECURSIVE TreeIndexes(_)
TreeIndexes(ids) ==
    {<<>>} \cup
    UNION {{<<[id |-> i, hex |-> h]>> \o rest : rest \in TreeIndexes(ids \ {i})} :
                i \in ids, h \in TileKeys}

NoEvent ==
    [op |-> "init", raised |-> "none", visited_trees |-> <<>>, legs |-> <<>>,
     built |-> <<>>, before |-> <<>>]

\* Grid.__init__, with the map constructed and the ribbons loaded.
InitGrid ==
    /\ tiles \in Maps
    /\ tree_hexagons \in TreeIndexes(TreeIds)
    /\ runs = <<>>
    /\ optimal_runs = <<>>
    /\ run_creation_mode = FALSE
    /\ path = <<>>
    /\ fov = {}
    /\ event = NoEvent

\* Grid.create_run() on the selected hexagon (a tile that is not blank); the
\* 'Create Run' button is disabled during run creation.
CreateRun(selected_hexagon) ==
    /\ ~run_creation_mode
    /\ run_uid \notin DOMAIN runs
    /\ get_tile(selected_hexagon) # 5
    /\ runs' = (run_uid :> RunAdd(Run(run_uid), selected_hexagon)) @@ runs
    /\ run_creation_mode' = TRUE
    /\ event' = [NoEvent EXCEPT !.op = "create_run"]
    /\ UNCHANGED <<tiles, tree_hexagons, optimal_runs, path, fov>>

\* Grid.modify_current_run(hexagon): add_hexagon or, when that fails,
\* remove_hexagon.
modify_current_run(current_run, hexagon) ==
    LET added == add_hexagon(current_run.hexagons, hexagon) IN
    [current_run EXCEPT !.hexagons =
        IF added.ret
        THEN added.hexagons
        ELSE remove_hexagon(current_run.hexagons, hexagon).hexagons]

\* A tile that is not blank is selected in run creation mode.
ModifyCurrentRun(hexagon) ==
    /\ run_creation_mode
    /\ get_tile(hexagon) # 5
    /\ Len(modify_current_run(runs[run_uid], hexagon).hexagons) <= MaxLen
    /\ runs' = [runs EXCEPT ![run_uid] = modify_current_run(runs[run_uid], hexagon)]
    /\ event' = [NoEvent EXCEPT !.op = "modify_current_run"]
    /\ UNCHANGED <<tiles, tree_hexagons, optimal_runs, run_creation_mode, path, fov>>

\* Grid.save_current_run(name)
SaveCurrentRun ==
    /\ run_creation_mode
    /\ \E outcome \in create_optimal_run(run_uid) :
        /\ run_creation_mode' = FALSE
        /\ optimal_runs' = StoreOptimalRun(run_uid, outcome)
        /\ path' = IF outcome.raised = "none" THEN <<>> ELSE path
        /\ event' = [op |-> "save_current_run",
                     raised |-> outcome.raised,
                     visited_trees |-> CollectTrees(runs[run_uid].hexagons, <<>>),
                     legs |-> outcome.legs,
                     built |-> outcome.optimal_run.hexagons,
                     before |-> optimal_runs]
    /\ UNCHANGED <<tiles, tree_hexagons, runs, fov>>

NextGrid ==
    \/ \E h \in TileKeys : CreateRun(h) /\ UNCHANGED restVars
    \/ \E h \in TileKeys : ModifyCurrentRun(h) /\ UNCHANGED restVars
    \/ SaveCurrentRun /\ UNCHANGED restVars

InitSession == RunInit /\ InitGrid /\ SessionIdle

SpecGrid == InitSession /\ [][NextGrid]_vars

-----------------------------------------------------------------------------
(* Claims about the optimal run. They are stated on the hexagons and the   *)
(* land covers, not on the operators of the model above.                   *)

\* The hexagons of hs that hold a ribbon, each once, in the order hs first
\* reaches them.
RECURSIVE TouchOrder(_, _)
TouchOrder(hs, seen) ==
    IF hs = <<>>
    THEN seen
    ELSE TouchOrder(Tail(hs),
                    IF /\ \E k \in 1..Len(tree_hexagons) : tree_hexagons[k].hex = Head(hs)
                       /\ ~InList(Head(hs), seen)
                    THEN Append(seen, Head(hs))
                    ELSE seen)

\* s occurs in hs at increasing positions.
RECURSIVE Embeds(_, _)
Embeds(s, hs) ==
    IF s = <<>> THEN TRUE
    ELSE IF hs = <<>> THEN FALSE
    ELSE IF Head(s) = Head(hs) THEN Embeds(Tail(s), Tail(hs))
    ELSE Embeds(s, Tail(hs))

\* The hexagons that can be reached from those of S by entering only tiles
\* that are neither water nor blank.
RECURSIVE Flood(_)
Flood(S) ==
    LET T == S \cup {h \in DOMAIN tiles :
                        /\ tiles[h] \notin {3, 5}
                        /\ \E m \in S : Adjacent(m, h)}
    IN IF T = S THEN S ELSE Flood(T)

Reachable(a, b) == b \in Flood({a})

\* Where the legs of the optimal run of the recorded run start and end: its
\* first hexagon, then the ribbon hexagons in the order the run reaches them.
Stops == <<runs[run_uid].hexagons[1]>> \o TouchOrder(runs[run_uid].hexagons, <<>>)

AllLegsReachable == \A i \in 1..(Len(Stops) - 1) : Reachable(Stops[i], Stops[i + 1])

Saved == event.op = "save_current_run"

\* Every leg has a single cheapest path: the pathfinder's choice among equally
\* cheap paths plays no part.
LegsUnique ==
    \A i \in 1..(Len(Stops) - 1) : Cardinality(find_path(Stops[i], Stops[i + 1])) = 1

\* C6 (as claimed): the ribbons ordered by their first occurrence in the
\* optimal run are those of the recorded run, in the recorded run's order
\* (looked at where every leg has a single cheapest path).
C6_FirstOccurrenceOrder ==
    (Saved /\ event.raised = "none" /\ LegsUnique) =>
        TouchOrder(optimal_runs[run_uid].hexagons, <<>>)
            = TouchOrder(runs[run_uid].hexagons, <<>>)

\* C6 (amended): the ribbon hexagons the recorded run touches occur in the
\* optimal run at increasing positions, in the order the recorded run first
\* touches them, whatever their order in the tree index.
C6_VisitsInTouchOrder ==
    (Saved /\ event.raised = "none") =>
        Embeds(TouchOrder(runs[run_uid].hexagons, <<>>), optimal_runs[run_uid].hexagons)

C6_Witness ==
    /\ Saved
    /\ event.raised = "none"
    /\ Len(TouchOrder(runs[run_uid].hexagons, <<>>)) = 2
    /\ TouchOrder(optimal_runs[run_uid].hexagons, <<>>)
            # TouchOrder(runs[run_uid].hexagons, <<>>)

FirstPos(h, hs) == CHOOSE i \in 1..Len(hs) : hs[i] = h /\ \A j \in 1..(i - 1) : hs[j] # h

\* C7: create_optimal_run collects every tree number whose hexagon occurs in
\* the recorded run, each exactly once, ordered by the first occurrence of its
\* hexagon in the run, also when two tree numbers have the same hexagon.
C7_WaypointCollection ==
    Saved =>
        LET v == event.visited_trees
            hs == runs[run_uid].hexagons
            hexOf(id) == (CHOOSE k \in 1..Len(tree_hexagons) : tree_hexagons[k].id = id)
        IN  /\ {v[i] : i \in 1..Len(v)}
                = {tree_hexagons[k].id : k \in {k \in 1..Len(tree_hexagons) :
                                                    InList(tree_hexagons[k].hex, hs)}}
            /\ \A i, j \in 1..Len(v) : i # j => v[i] # v[j]
            /\ \A i, j \in 1..Len(v) : i < j =>
                    FirstPos(tree_hexagons[hexOf(v[i])].hex, hs)
                        <= FirstPos(tree_hexagons[hexOf(v[j])].hex, hs)

RECURSIVE ConcatTails(_)
ConcatTails(legs) ==
    IF legs = <<>> THEN <<>> ELSE Tail(Head(legs)) \o ConcatTails(Tail(legs))

\* C8: when every leg is reachable, the optimal run stored has the run id of
\* the recorded run, starts at its first hexagon, is that hexagon followed by
\* the paths of the legs without their first elements, is contiguous, and ends
\* at the last ribbon hexagon the run reached (at the start when there is none).
C8_OptimalRunConstruction ==
    (Saved /\ AllLegsReachable) =>
        /\ event.raised = "none"
        /\ run_uid \in DOMAIN optimal_runs
        /\ LET opt == optimal_runs[run_uid]
               rec == runs[run_uid]
           IN  /\ opt.run_id = rec.run_id
               /\ opt.hexagons[1] = rec.hexagons[1]
               /\ Len(event.legs) = Len(Stops) - 1
               /\ opt.hexagons = <<rec.hexagons[1]>> \o ConcatTails(event.legs)
               /\ Contiguous(opt.hexagons)
               /\ Last(opt.hexagons) = Last(Stops)

C8_Witness ==
    /\ Saved
    /\ AllLegsReachable
    /\ Len(event.legs) = 2
    /\ \A i \in 1..2 : Len(event.legs[i]) >= 2
    /\ \E k \in DOMAIN tiles : tiles[k] = 3

\* C9: when the leg to some collected ribbon is unreachable through passable
\* terrain, save_current_run ends with NoPathFound and optimal_runs is what it
\* was: no partly built optimal run is stored.
C9_NoPartialResult ==
    (Saved /\ ~AllLegsReachable) =>
        /\ event.raised = "NoPathFound"
        /\ optimal_runs = event.before
        /\ run_uid \notin DOMAIN optimal_runs

C9_Witness ==
    /\ Saved
    /\ ~AllLegsReachable
    /\ event.raised = "NoPathFound"
    /\ Len(event.built) >= 2

\* C10: every path the pathfinder returned starts at the hexagon it was asked
\* to start from, ends at its goal, is contiguous, and after its first
\* element holds only tiles that are neither water nor blank.
C10_PathValid ==
    Saved =>
        \A i \in 1..Len(event.legs) :
            LET p == event.legs[i] IN
            /\ Len(p) >= 1
            /\ i + 1 <= Len(Stops)
            /\ p[1] = Stops[i]
            /\ Last(p) = Stops[i + 1]
            /\ Contiguous(p)
            /\ \A j \in 2..Len(p) : p[j] \in DOMAIN tiles /\ tiles[p[j]] \notin {3, 5}

C10_Witness ==
    /\ Saved
    /\ \E i \in 1..Len(event.legs) : Len(event.legs[i]) >= 3
    /\ \E k \in DOMAIN tiles : tiles[k] = 3

-----------------------------------------------------------------------------
(* The interactive planner: Grid.mousePressEvent during the creation of a  *)
(* run. A right click asks the pathfinder for the path from the last       *)
(* hexagon of the current run to the clicked hexagon and keeps it in       *)
(* Grid.path; a right click on the end of that path clears it.             *)

\* hexutil.Hex.distance: the number of steps between two hexagons.
distance(a, b) ==
    LET dx == Abs(a[1] - b[1])
        dy == Abs(a[2] - b[2])
    IN dy + (IF dx > dy THEN (dx - dy) \div 2 ELSE 0)

\* At most this many tiles of a map of the planner are not grass.
MaxRough == 2

\* The maps of the planner: a tile has any of the five land covers.
PlanMaps ==
    {t \in [TileKeys -> LandCovers] :
        Cardinality({k \in TileKeys : t[k] # 1}) <= MaxRough}

\* Where the planner is clicked: on a tile or beside the grid.
ClickTargets == TileKeys \cup {<<-1, -1>>}

plan_path_swallows_failure(hex, clicked_hexagon) ==
    LET found == find_path(hex, clicked_hexagon) IN
    IF found = {}
    THEN {[raised |-> "none", found |-> <<>>, path |-> <<>>]}
    ELSE {[raised |-> "none", found |-> p, path |-> Tail(p)] : p \in found}

\* mousePressEvent, right button, the pathfinding request: "self.path =
\* hex.find_path(...)" and "self.path.pop(0)". When the pathfinder raises
\* NoPathFound nothing is assigned and the exception leaves the handler.
plan_path(hex, clicked_hexagon) ==
    LET found == find_path(hex, clicked_hexagon) IN
    IF found = {}
    THEN {[raised |-> "NoPathFound", found |-> <<>>, path |-> path]}
    ELSE {[raised |-> "none", found |-> p, path |-> Tail(p)] : p \in found}

NoClick ==
    [op |-> "init", clicked |-> <<0, 0>>, request |-> FALSE, raised |-> "none",
     found |-> <<>>, run_before |-> <<>>]

InitPlan ==
    /\ tiles \in PlanMaps
    /\ tree_hexagons = <<>>
    /\ runs = <<>>
    /\ optimal_runs = <<>>
    /\ run_creation_mode = FALSE
    /\ path = <<>>
    /\ fov = {}
    /\ event = NoClick

\* The 'Create Run' button in the planner.
PlanCreateRun(selected_hexagon) ==
    /\ ~run_creation_mode
    /\ run_uid \notin DOMAIN runs
    /\ get_tile(selected_hexagon) # 5
    /\ runs' = (run_uid :> RunAdd(Run(run_uid), selected_hexagon)) @@ runs
    /\ run_creation_mode' = TRUE
    /\ event' = [NoClick EXCEPT !.op = "create_run"]
    /\ UNCHANGED <<tiles, tree_hexagons, optimal_runs, path, fov>>

\* mousePressEvent, right button.
RightClick(clicked_hexagon) ==
    /\ run_creation_mode
    /\ IF path # <<>> /\ Last(path) = clicked_hexagon
       THEN /\ path' = <<>>
            /\ event' = [NoClick EXCEPT !.op = "right_click"]
       ELSE LET hex == Last(runs[run_uid].hexagons) IN
            \E outcome \in plan_path(hex, clicked_hexagon) :
                /\ path' = outcome.path
                /\ event' = [op |-> "right_click",
                             clicked |-> clicked_hexagon,
                             request |-> TRUE,
                             raised |-> outcome.raised,
                             found |-> outcome.found,
                             run_before |-> runs[run_uid].hexagons]
    /\ UNCHANGED <<tiles, tree_hexagons, runs, optimal_runs, run_creation_mode, fov>>

NextPlan ==
    \/ \E h \in TileKeys : PlanCreateRun(h) /\ UNCHANGED restVars
    \/ \E h \in ClickTargets : RightClick(h) /\ UNCHANGED restVars

InitPlanner == RunInit /\ InitPlan /\ SessionIdle

SpecPlan == InitPlanner /\ [][NextPlan]_vars

-----------------------------------------------------------------------------
(* Claims about the planner. *)

\* The cost of entering a tile, doubled: grass 1.5, bushes 10, path 1.
EntryCost(h) ==
    IF tiles[h] = 1 THEN 3 ELSE IF tiles[h] = 2 THEN 20 ELSE 2

RECURSIVE Weight(_)
Weight(p) == IF Len(p) <= 1 THEN 0 ELSE EntryCost(Last(p)) + Weight(Front(p))

\* Every path without repetition that continues p through tiles that are
\* neither water nor blank and ends in goal.
RECURSIVE Continuations(_, _)
Continuations(p, goal) ==
    IF Last(p) = goal
    THEN {p}
    ELSE UNION {Continuations(Append(p, n), goal) :
                    n \in {k \in DOMAIN tiles : /\ tiles[k] \notin {3, 5}
                                                /\ Adjacent(Last(p), k)
                                                /\ ~InList(k, p)}}

PathFound == event.op = "right_click" /\ event.request /\ event.raised = "none"

\* C11: the path a pathfinding request returns starts on the last hexagon of
\* the run, ends on the clicked hexagon and costs no more than any path
\* between the two through passable tiles, the cost of a path being the sum of
\* the costs of the hexagons it enters (grass 1.5, bushes 10, path 1); on a map
\* of grass only it has hex distance + 1 hexagons.
C11_PathOptimal ==
    PathFound =>
        LET p == event.found
            start == Last(runs[run_uid].hexagons)
        IN  /\ p[1] = start
            /\ Last(p) = event.clicked
            /\ \A q \in Continuations(<<start>>, event.clicked) : Weight(p) <= Weight(q)
            /\ (\A k \in DOMAIN tiles : tiles[k] = 1) =>
                    Len(p) = distance(start, event.clicked) + 1

\* A request answered with a path that goes around bushes although a path of
\* the same length crosses them.
C11_Witness ==
    /\ PathFound
    /\ Len(event.found) = 3
    /\ tiles[event.found[2]] = 4
    /\ \E q \in Continuations(<<event.found[1]>>, event.clicked) :
            Len(q) = 3 /\ tiles[q[2]] = 2

\* C12: a pathfinding request for a goal that cannot be reached from the last
\* hexagon of the run through passable tiles ends in NoPathFound, and the
\* hexagons of the current run are what they were before the request.
C12_UnreachableGoal ==
    (/\ event.op = "right_click"
     /\ event.request
     /\ ~Reachable(Last(event.run_before), event.clicked))
    => /\ event.raised = "NoPathFound"
       /\ runs[run_uid].hexagons = event.run_before

\* A request for a grass tile all of whose neighbouring tiles are water.
C12_Witness ==
    /\ event.op = "right_click"
    /\ event.request
    /\ event.raised = "NoPathFound"
    /\ event.clicked \in DOMAIN tiles
    /\ tiles[event.clicked] = 1
    /\ \A k \in DOMAIN tiles : Adjacent(k, event.clicked) => tiles[k] = 3

-----------------------------------------------------------------------------
(* The construction of the Map and its queries. Map.__init__ classifies    *)
(* the tiles and then lays the corrections over them; the queries are      *)
(* answered on the constructed map.                                        *)

\* Map.__init__, the loop over the tiles: tile i gets the land cover its
\* colours are classified as.
Tiles(land_cover) ==
    [k \in TileKeys |->
        land_cover[CHOOSE i \in 0..(num_hor * num_ver - 1) : TileKey(i) = k]]

RECURSIVE add_corrections_only_blank(_, _)
add_corrections_only_blank(t, listed) ==
    IF listed = <<>>
    THEN [raised |-> "none", tiles |-> t]
    ELSE IF Head(listed) \notin DOMAIN t
         THEN [raised |-> "KeyError", tiles |-> t]
         ELSE add_corrections_only_blank(
                [t EXCEPT ![Head(listed)] = IF @ = 5 THEN 4 ELSE @], Tail(listed))

\* Map.__init__, the corrections: "hex = self.tiles[(hex_x, hex_y)];
\* hex.add_landcover(4)" for each listed coordinate, KeyError at the first one
\* that is no key of tiles.
RECURSIVE add_corrections(_, _)
add_corrections(t, listed) ==
    IF listed = <<>>
    THEN [raised |-> "none", tiles |-> t]
    ELSE IF Head(listed) \notin DOMAIN t
         THEN [raised |-> "KeyError", tiles |-> t]
         ELSE add_corrections([t EXCEPT ![Head(listed)] = 4], Tail(listed))

\* Map.is_transparent
is_transparent(hexagon) ==
    IF get_tile(hexagon) = 5
    THEN FALSE
    ELSE IF \/ hexagon[1] = 0
            \/ hexagon[2] = 0
            \/ hexagon[1] = num_hor * 2
            \/ hexagon[2] = num_ver
         THEN \A i \in 1..6 : get_tile(neighbours(hexagon)[i]) # 5
         ELSE TRUE

\* The correction files list at most this many coordinates.
MaxCorrections == 2

\* The coordinates a correction file may list: the tiles and a coordinate
\* beside the grid.
CorrectionCoords == TileKeys \cup {<<2 * num_hor, 0>>}

CorrectionLists == UNION {[1..n -> CorrectionCoords] : n \in 0..MaxCorrections}

NoQuery ==
    [op |-> "init", hexagon |-> <<0, 0>>, ret |-> 0, raised |-> "none",
     listed |-> <<>>, before |-> <<>>]

\* Map.__init__ up to the corrections.
InitMap ==
    /\ \E land_cover \in [0..(num_hor * num_ver - 1) -> LandCovers] :
            tiles = Tiles(land_cover)
    /\ tree_hexagons = <<>>
    /\ runs = <<>>
    /\ optimal_runs = <<>>
    /\ run_creation_mode = FALSE
    /\ path = <<>>
    /\ fov = {}
    /\ event = NoQuery

\* Map.__init__ from the corrections on.
Corrections(listed) ==
    /\ event.op = "init"
    /\ LET outcome == add_corrections(tiles, listed) IN
        /\ tiles' = outcome.tiles
        /\ event' = [NoQuery EXCEPT !.op = "corrections",
                                    !.raised = outcome.raised,
                                    !.listed = listed,
                                    !.before = tiles]
    /\ UNCHANGED <<tree_hexagons, runs, optimal_runs, run_creation_mode, path, fov>>

Constructed == event.op # "init" /\ event.raised = "none"

GetTile(hexagon) ==
    /\ Constructed
    /\ event' = [NoQuery EXCEPT !.op = "get_tile", !.hexagon = hexagon,
                                !.ret = get_tile(hexagon)]
    /\ UNCHANGED <<tiles, tree_hexagons, runs, optimal_runs, run_creation_mode,
                   path, fov>>

IsPassable(hexagon) ==
    /\ Constructed
    /\ event' = [NoQuery EXCEPT !.op = "is_passable", !.hexagon = hexagon,
                                !.ret = is_passable(hexagon)]
    /\ UNCHANGED <<tiles, tree_hexagons, runs, optimal_runs, run_creation_mode,
                   path, fov>>

IsTransparent(hexagon) ==
    /\ Constructed
    /\ event' = [NoQuery EXCEPT !.op = "is_transparent", !.hexagon = hexagon,
                                !.ret = is_transparent(hexagon)]
    /\ UNCHANGED <<tiles, tree_hexagons, runs, optimal_runs, run_creation_mode,
                   path, fov>>

NextMap ==
    \/ \E listed \in CorrectionLists : Corrections(listed) /\ UNCHANGED restVars
    \/ \E h \in Lattice : GetTile(h) /\ UNCHANGED restVars
    \/ \E h \in Lattice : IsPassable(h) /\ UNCHANGED restVars
    \/ \E h \in Lattice : IsTransparent(h) /\ UNCHANGED restVars

InitConstruction == RunInit /\ InitMap /\ SessionIdle

SpecMap == InitConstruction /\ [][NextMap]_vars

-----------------------------------------------------------------------------
(* Claims about the Map. *)

\* C13: is_passable is false exactly for the coordinates whose land cover is
\* water or blank; get_tile answers every coordinate, with the land cover of
\* its tile or with blank when the coordinate has no tile, so that every
\* coordinate outside the grid is impassable.
C13_Passability ==
    /\ event.op = "is_passable" =>
        LET h == event.hexagon IN
        /\ h \in DOMAIN tiles => (event.ret <=> tiles[h] \notin {3, 5})
        /\ h \notin DOMAIN tiles => event.ret = FALSE
    /\ event.op = "get_tile" =>
        LET h == event.hexagon IN
        /\ h \in DOMAIN tiles => event.ret = tiles[h]
        /\ h \notin DOMAIN tiles => event.ret = 5

\* is_passable asked about a coordinate beside a grid that has a blank tile.
C13_Witness ==
    /\ event.op = "is_passable"
    /\ event.hexagon \notin DOMAIN tiles
    /\ event.ret = FALSE
    /\ \E k \in DOMAIN tiles : tiles[k] = 5

\* A tile of the first or last row, or the first or last tile of its row.
OuterRing(h) ==
    /\ h \in DOMAIN tiles
    /\ \/ h[2] = 0
       \/ h[2] = num_ver - 1
       \/ h[1] = h[2] % 2
       \/ h[1] = 2 * (num_hor - 1) + (h[2] % 2)

Blank(h) == h \notin DOMAIN tiles \/ tiles[h] = 5

\* C14: is_transparent is false for a blank tile and for a tile of the outer
\* ring of the grid that has a blank neighbour, and true otherwise.
C14_Transparency ==
    event.op = "is_transparent" =>
        LET h == event.hexagon IN
        event.ret <=> /\ ~Blank(h)
                      /\ OuterRing(h) => \A i \in 1..6 : ~Blank(neighbours(h)[i])

\* C19: tiles has exactly num_hor * num_ver keys, the coordinates
\* (2*col + (row mod 2), row) of the columns and rows of the grid; x + y is even
\* for every key, x lies in 0..2*num_hor - 1 and y in 0..num_ver - 1; every
\* tile holds one of the five land covers.
C19_TileAddressing ==
    /\ DOMAIN tiles = {<<2 * col + (row % 2), row>> :
                            col \in 0..(num_hor - 1), row \in 0..(num_ver - 1)}
    /\ Cardinality(DOMAIN tiles) = num_hor * num_ver
    /\ \A k \in DOMAIN tiles :
        /\ (k[1] + k[2]) % 2 = 0
        /\ 0 <= k[1] /\ k[1] < 2 * num_hor
        /\ 0 <= k[2] /\ k[2] < num_ver
        /\ tiles[k] \in {1, 2, 3, 4, 5}

\* A constructed map with a blank tile on an even row and a path tile on an
\* odd one.
C19_Witness ==
    /\ Constructed
    /\ \E k \in DOMAIN tiles : k[2] % 2 = 0 /\ tiles[k] = 5
    /\ \E k \in DOMAIN tiles : k[2] % 2 = 1 /\ tiles[k] = 4

\* C20: after the corrections every listed coordinate is a path tile whatever
\* it was before, every other tile has the land cover it had, the keys of tiles
\* are the same, and laying the corrections over the result once more changes
\* nothing.
C20_CorrectionOverlay ==
    (event.op = "corrections" /\ event.raised = "none") =>
        /\ \A i \in 1..Len(event.listed) : tiles[event.listed[i]] = 4
        /\ \A k \in DOMAIN tiles : ~InList(k, event.listed) => tiles[k] = event.before[k]
        /\ DOMAIN tiles = DOMAIN event.before
        /\ add_corrections(tiles, event.listed).tiles = tiles

\* Corrections that list a water tile and a tile that was a path already.
C20_Witness ==
    /\ event.op = "corrections"
    /\ event.raised = "none"
    /\ Len(event.listed) = 2
    /\ event.before[event.listed[1]] = 3
    /\ event.before[event.listed[2]] = 4
    /\ \E k \in DOMAIN tiles : tiles[k] = 2

-----------------------------------------------------------------------------
(* hexutil.Hex.field_of_view: the hexagons seen from an origin. Sight       *)
(* spreads outwards from the origin, one step of distance at a time: a      *)
(* hexagon is seen when one of its neighbours one step closer to the origin *)
(* is seen and is the origin or transparent. A hexagon that is not          *)
(* transparent is seen itself and hides what lies behind it. Nothing        *)
(* farther than max_distance is seen. transparent is the set of the         *)
(* hexagons the callback answers true for.                                  *)

RECURSIVE Rays(_, _, _, _, _)
Rays(origin, transparent, visible, k, max_distance) ==
    LET ring == {h \in Lattice :
                    /\ distance(origin, h) = k
                    /\ \E i \in 1..6 :
                        LET n == neighbours(h)[i] IN
                        /\ n \in visible
                        /\ distance(origin, n) = k - 1
                        /\ (n = origin \/ n \in transparent)}
    IN IF k > max_distance \/ ring = {}
       THEN visible
       ELSE Rays(origin, transparent, visible \cup ring, k + 1, max_distance)

field_of_view(origin, transparent, max_distance) ==
    Rays(origin, transparent, {origin}, 1, max_distance)

-----------------------------------------------------------------------------
(* Grid.update_fov, called when a tile is selected with the left button.   *)

update_fov_keeps_previous(hexagon) ==
    fov \cup field_of_view(hexagon, {h \in Lattice : is_transparent(h)}, 10)

\* "self.fov.clear(); self.fov = hexagon.field_of_view(
\* self.map.is_transparent, max_distance=10)"
update_fov(hexagon) ==
    field_of_view(hexagon, {h \in Lattice : is_transparent(h)}, 10)

NoSelection == [op |-> "init", hexagon |-> <<0, 0>>, raised |-> "none", before |-> {}]

\* Grid.__init__ on a constructed map.
InitFov ==
    /\ tiles \in [TileKeys -> LandCovers]
    /\ tree_hexagons = <<>>
    /\ runs = <<>>
    /\ optimal_runs = <<>>
    /\ run_creation_mode = FALSE
    /\ path = <<>>
    /\ fov = {}
    /\ event = NoSelection

\* mousePressEvent, left button on a tile that is not blank: update_fov on
\* the selected tile. The loop over the field of view looks every hexagon of
\* it up in tiles and ends with KeyError on one that is no key.
UpdateFov(hexagon) ==
    /\ get_tile(hexagon) # 5
    /\ fov' = update_fov(hexagon)
    /\ event' = [op |-> "update_fov",
                 hexagon |-> hexagon,
                 raised |-> IF \E h \in fov' : h \notin DOMAIN tiles
                            THEN "KeyError" ELSE "none",
                 before |-> fov]
    /\ UNCHANGED <<tiles, tree_hexagons, runs, optimal_runs, run_creation_mode, path>>

NextFov == \E h \in TileKeys : UpdateFov(h) /\ UNCHANGED restVars

InitSight == RunInit /\ InitFov /\ SessionIdle

SpecFov == InitSight /\ [][NextFov]_vars

-----------------------------------------------------------------------------
(* Claims about the field of view. *)

\* The k-th hexagon from o in the i-th of the six directions.
AxisHex(o, i, k) ==
    <<o[1] + k * NeighbourOffsets[i][1], o[2] + k * NeighbourOffsets[i][2]>>

-----------------------------------------------------------------------------
(* Geodesic coordinates and the ribbons (Map.get_gps_coords,                *)
(* Map.load_ribbons). A position is the pair <<south, east>> of its         *)
(* distances from the top left corner of the map: eastwards in quarters of  *)
(* the width of a hexagon, southwards in quarters of the distance between   *)
(* two rows. The image covers the rectangle of the corners, so the step of  *)
(* latitude between two rows is the distance between two rows.              *)

\* Map.hex_width, the distance between the centers of two tiles of a row.
hex_width == 4

\* "self.hex_height * 3/4", the distance between two rows.
row_pitch == 4

\* get_gps_coords: the longitude of one hexagon width and the latitude of one
\* row, as distances.
x_difference_hex == hex_width
y_difference_hex == row_pitch

get_gps_coords_whole_x(hex) ==
    <<hex[2] * y_difference_hex, hex[1] * x_difference_hex>>

\* Map.get_gps_coords: "(y, x)" with x = hex.x / 2 * x_difference_hex and
\* y = hex.y * y_difference_hex from the corner.
get_gps_coords(hex) ==
    <<hex[2] * y_difference_hex, (hex[1] * x_difference_hex) \div 2>>

\* Python's round(n / d) for n >= 0: the nearest whole number, the even one of
\* the two when n / d lies halfway.
round(n, d) ==
    LET q == n \div d
        r == n % d
    IN IF 2 * r < d THEN q
       ELSE IF 2 * r > d THEN q + 1
       ELSE IF q % 2 = 0 THEN q ELSE q + 1

\* hs.haversine between two positions of the map, as 64 / hex_width^2 times
\* its square: a row is sqrt(3)/2 hexagon widths high.
haversine(a, b) ==
    4 * (a[2] - b[2]) * (a[2] - b[2]) + 3 * (a[1] - b[1]) * (a[1] - b[1])

\* "hs.haversine((y_gps, x_gps), (neighbour.x, y_model))": the distance to the
\* point whose latitude and longitude in degrees are the x of the neighbour
\* and the row. The map lies at 52.36 N, 4.95 E, so that point is farther from
\* the ribbon than any two points of the map are from each other.
distance_to_neighbour(gps, neighbour, y_model) ==
    haversine(<<0, 0>>, <<(num_ver + 1) * row_pitch, (num_hor + 1) * hex_width>>) + 1

\* load_ribbons, the hexagon of a position computed "with squares".
candidate(gps) ==
    LET dist_from_top == gps[1]
        dist_from_left == gps[2]
        y_model == round(dist_from_top, row_pitch)
        x_model == IF y_model % 2 = 0
                   THEN round(dist_from_left, hex_width) * 2
                   ELSE round(dist_from_left + hex_width \div 2, hex_width) * 2 + 1
    IN <<x_model, y_model>>

\* load_ribbons, the loop over the neighbours of the hexagon found.
snap(gps, hex) ==
    LET distance_to_center == haversine(gps, get_gps_coords(hex))
        closer == {i \in 1..6 :
                    distance_to_center > distance_to_neighbour(gps, neighbours(hex)[i], hex[2])}
    IN IF closer = {} THEN hex ELSE neighbours(hex)[Min(closer)]

\* "self.tree_hexagons[values[2]] = hex"
StoreTree(index, id, hex) ==
    IF \E i \in 1..Len(index) : index[i].id = id
    THEN [i \in 1..Len(index) |->
            IF index[i].id = id THEN [id |-> id, hex |-> hex] ELSE index[i]]
    ELSE Append(index, [id |-> id, hex |-> hex])

\* load_ribbons, the loop over the rows of the file. A row that does not
\* parse ends it with ValueError; a ribbon whose hexagon is no key of tiles
\* ends it with AttributeError, tiles.get having answered None.
RECURSIVE load_rows(_, _, _)
load_rows(rows, index, candidates) ==
    IF rows = <<>>
    THEN [raised |-> "none", tree_hexagons |-> index, candidates |-> candidates]
    ELSE LET row == Head(rows) IN
         IF ~row.parses
         THEN [raised |-> "ValueError", tree_hexagons |-> index,
               candidates |-> candidates]
         ELSE LET hex == candidate(row.gps) IN
              IF hex \notin DOMAIN tiles
              THEN [raised |-> "AttributeError", tree_hexagons |-> index,
                    candidates |-> Append(candidates, hex)]
              ELSE load_rows(Tail(rows),
                             StoreTree(index, row.id, snap(row.gps, hex)),
                             Append(candidates, hex))

\* Map.load_ribbons: "self.tree_hexagons.clear()", then the rows.
load_ribbons(rows) == load_rows(rows, <<>>, <<>>)

-----------------------------------------------------------------------------
(* The ribbon file is loaded into a map that may hold ribbons loaded        *)
(* earlier.                                                                 *)

\* The ribbon file has at most this many rows.
MaxRows == 2

\* The positions of the ribbons: the centers of the tiles, the points halfway
\* between two of them in a row and between two rows, and the right edge of
\* the map.
GpsPoints ==
    {<<(row_pitch \div 2) * i, (hex_width \div 2) * j>> :
        i \in 0..(2 * (num_ver - 1)), j \in 0..(2 * num_hor)}

\* A row of the file: a position and a tree number, or a row that does not
\* parse.
Rows ==
    {[parses |-> TRUE, gps |-> g, id |-> i] : g \in GpsPoints, i \in TreeIds}
        \cup {[parses |-> FALSE, gps |-> <<0, 0>>, id |-> ""]}

RibbonFiles == UNION {[1..n -> Rows] : n \in 0..MaxRows}

\* The ribbons loaded earlier: none or one.
EarlierRibbons == {index \in TreeIndexes(TreeIds) : Len(index) <= 1}

NoLoad ==
    [op |-> "init", raised |-> "none", rows |-> <<>>, candidates |-> <<>>,
     before |-> <<>>]

InitRibbons ==
    /\ tiles \in [TileKeys -> {1}]
    /\ tree_hexagons \in EarlierRibbons
    /\ runs = <<>>
    /\ optimal_runs = <<>>
    /\ run_creation_mode = FALSE
    /\ path = <<>>
    /\ fov = {}
    /\ event = NoLoad

\* Map.load_ribbons(file_path)
LoadRibbons(rows) ==
    /\ LET outcome == load_ribbons(rows) IN
        /\ tree_hexagons' = outcome.tree_hexagons
        /\ event' = [op |-> "load_ribbons",
                     raised |-> outcome.raised,
                     rows |-> rows,
                     candidates |-> outcome.candidates,
                     before |-> tree_hexagons]
    /\ UNCHANGED <<tiles, runs, optimal_runs, run_creation_mode, path, fov>>

\* One file is loaded in a behaviour.
NextRibbons ==
    /\ event.op = "init"
    /\ \E rows \in RibbonFiles : LoadRibbons(rows) /\ UNCHANGED restVars

InitLoad == RunInit /\ InitRibbons /\ SessionIdle

SpecRibbons == InitLoad /\ [][NextRibbons]_vars

-----------------------------------------------------------------------------
(* Claims about the ribbons. *)

Loaded == event.op = "load_ribbons"

\* C16: when load_ribbons fails on a row, tree_hexagons is what it was before
\* the call.
C16_TransactionalReload ==
    (Loaded /\ event.raised # "none") => tree_hexagons = event.before

\* The hexagon the claim stores for a ribbon: the hexagon found, unless the
\* center of a neighbour is strictly closer to the ribbon than its center, and
\* then the first such neighbour.
ExpectedSnap(gps, hex) ==
    LET closer == {i \in 1..6 :
                    haversine(gps, get_gps_coords(neighbours(hex)[i]))
                        < haversine(gps, get_gps_coords(hex))}
    IN IF closer = {} THEN hex ELSE neighbours(hex)[Min(closer)]

\* C17: the hexagon stored for a ribbon is the hexagon found for its
\* position, or the first neighbour of that hexagon whose center is strictly
\* closer to the position when there is one.
C17_Snapping ==
    (Loaded /\ event.raised = "none") =>
        \A i \in 1..Len(event.rows) :
            (\A j \in (i + 1)..Len(event.rows) : event.rows[j].id # event.rows[i].id)
            => TreeHexagon(event.rows[i].id)
                    = ExpectedSnap(event.rows[i].gps, event.candidates[i])

-----------------------------------------------------------------------------
(* hexutil.Hex.find_path, one step at a time: a uniform-cost search. The   *)
(* frontier holds the hexagons reached and not yet settled, each with the  *)
(* cost of the cheapest way found to it. A step settles a cheapest hexagon *)
(* of the frontier: the search ends when that is the goal, and otherwise   *)
(* its passable neighbours that are not settled join the frontier. The     *)
(* search fails when the frontier is empty. Grid.create_optimal_run runs   *)
(* one search for every tree the run visits; todo holds the trees still to *)
(* be reached.                                                             *)

\* A goal hexagon far outside the grid.
OutsideGoal == <<2 * num_hor + 4, num_ver + 2>>

Goals == Lattice \cup {OutsideGoal}

\* A recorded run has at most this many hexagons when its optimal run is
\* searched for.
MaxRecorded == 2

\* The runs add_hexagon builds on the tiles that can be selected.
RECURSIVE RecordedRuns(_)
RecordedRuns(n) ==
    IF n = 0
    THEN {<<>>}
    ELSE LET shorter == RecordedRuns(n - 1) IN
         shorter \cup {add_hexagon(hs, h).hexagons :
                            hs \in shorter, h \in {k \in TileKeys : tiles[k] # 5}}

\* find_path(goal, passable, cost) called on start
BeginSearch(start, goal, todo) ==
    [stage |-> "searching", start |-> start, goal |-> goal,
     frontier |-> [h \in {start} |-> 0], settled |-> {}, todo |-> todo]

\* The frontier after hexagon h is settled.
Expanded(h) ==
    LET joining == {n \in {neighbours(h)[i] : i \in 1..6} :
                        is_passable(n) /\ n \notin search.settled \cup {h}}
        old == DOMAIN search.frontier \ {h}
    IN [n \in old \cup joining |->
            IF n \in old /\ n \in joining
            THEN Min({search.frontier[n], search.frontier[h] + cost(n)})
            ELSE IF n \in old THEN search.frontier[n]
            ELSE search.frontier[h] + cost(n)]

InitSearch ==
    /\ tiles \in Maps
    /\ tree_hexagons \in TreeIndexes(TreeIds)
    /\ runs = <<>>
    /\ optimal_runs = <<>>
    /\ run_creation_mode = FALSE
    /\ path = <<>>
    /\ fov = {}
    /\ event = [op |-> "init"]
    /\ search = [stage |-> "idle"]
    /\ current_run_id = 0
    /\ next_run_uid = 1
    /\ run_list = {}
    /\ selected_run = 0

\* A pathfinding query between a start tile and a goal.
FindPath(start, goal) ==
    /\ search' = BeginSearch(start, goal, <<>>)
    /\ UNCHANGED <<tiles, tree_hexagons, runs, optimal_runs, run_creation_mode,
                   path, fov, event, current_run_id, next_run_uid, run_list,
                   selected_run>>

\* Grid.create_optimal_run on a recorded run, up to its first search: "for
\* tree_number in visited_trees: ... path = current_position.find_path(
\* tree_hexagon, ...)".
BeginOptimalRun(hs) ==
    LET visited_trees == CollectTrees(hs, <<>>) IN
    /\ runs' = (run_uid :> [run_id |-> run_uid, hexagons |-> hs])
    /\ search' = IF visited_trees = <<>>
                 THEN [stage |-> "found", start |-> hs[1], goal |-> hs[1],
                       frontier |-> <<>>, settled |-> {}, todo |-> <<>>]
                 ELSE BeginSearch(hs[1], TreeHexagon(Head(visited_trees)),
                                  Tail(visited_trees))
    /\ UNCHANGED <<tiles, tree_hexagons, optimal_runs, run_creation_mode,
                   path, fov, event, current_run_id, next_run_uid, run_list,
                   selected_run>>

\* One step of the search: a cheapest hexagon of the frontier is settled.
\* The search is followed as long as it stays on the lattice.
Settle ==
    /\ search.stage = "searching"
    /\ \E h \in DOMAIN search.frontier :
        /\ \A n \in DOMAIN search.frontier : search.frontier[h] <= search.frontier[n]
        /\ IF h = search.goal
           THEN search' =
                    IF search.todo = <<>>
                    THEN [search EXCEPT !.stage = "found"]
                    ELSE BeginSearch(h, TreeHexagon(Head(search.todo)),
                                     Tail(search.todo))
           ELSE /\ DOMAIN Expanded(h) \subseteq Lattice
                /\ search' = [search EXCEPT !.frontier = Expanded(h),
                                            !.settled = @ \cup {h}]
    /\ UNCHANGED <<tiles, tree_hexagons, runs, optimal_runs, run_creation_mode,
                   path, fov, event, current_run_id, next_run_uid, run_list,
                   selected_run>>

\* The frontier is empty and the goal was not settled: NoPathFound.
Exhausted ==
    /\ search.stage = "searching"
    /\ DOMAIN search.frontier = {}
    /\ search' = [search EXCEPT !.stage = "failed"]
    /\ UNCHANGED <<tiles, tree_hexagons, runs, optimal_runs, run_creation_mode,
                   path, fov, event, current_run_id, next_run_uid, run_list,
                   selected_run>>

SearchStep == (Settle \/ Exhausted) /\ UNCHANGED runVars

NextSearch ==
    \/ /\ search.stage = "idle"
       /\ tree_hexagons = <<>>
       /\ \E start \in TileKeys, goal \in Goals :
            FindPath(start, goal) /\ UNCHANGED runVars
    \/ /\ search.stage = "idle"
       /\ \E hs \in RecordedRuns(MaxRecorded) \ {<<>>} :
            BeginOptimalRun(hs) /\ UNCHANGED runVars
    \/ SearchStep

InitQuery == RunInit /\ InitSearch

\* The search runs to its end without waiting for anything: a step that can
\* be taken is taken.
SpecSearch == InitQuery /\ [][NextSearch]_vars /\ WF_vars(SearchStep)

-----------------------------------------------------------------------------
(* Termination of the search. *)

Searching == search.stage = "searching"

Finished == search.stage \in {"found", "failed"}

\* C21: a pathfinding query that has begun, for any start tile and any goal,
\* on the map or outside it, eventually ends with a path or with NoPathFound,
\* and so does create_optimal_run for every recorded run and tree index.
C21_Termination == Searching ~> Finished

\* A query for a goal outside the grid has failed after the search settled
\* every tile that can be reached.
C21_Witness ==
    /\ search.stage = "failed"
    /\ search.goal \notin DOMAIN tiles
    /\ Cardinality(search.settled) >= 3

-----------------------------------------------------------------------------
(* The session of the window (code/visualisation/model.py and grid.py):    *)
(* runs are created on the selected hexagon or loaded from a file, listed  *)
(* when they are saved, selected in the list, modified, saved and deleted. *)
(* The run list is the set of the run ids that have an item in it.         *)

\* At most this many runs are created in a session.
MaxRuns == 2

\* A run of the session has at most this many hexagons.
SessionLen == 2

\* The tiles that can be selected: "hex != 5".
Selectable == {k \in TileKeys : tiles[k] # 5}

\* The hexagon columns of the run files that are loaded: up to n selectable
\* tiles in any order, none for a file without rows.
RECURSIVE RunFiles(_)
RunFiles(n) ==
    IF n = 0
    THEN {<<>>}
    ELSE LET shorter == RunFiles(n - 1) IN
         shorter \cup {Append(hs, h) : hs \in shorter, h \in Selectable}

\* Grid.create_optimal_run for a run with the hexagons hs: its outcomes.
OptimalRunOf(run_id, hs) ==
    RouteLegs(hs[1], CollectTrees(hs, <<>>), RunAdd(Run(run_id), hs[1]), <<>>)

\* Grid.create_run(name, hexagons): with hexagons, the run of a file, which
\* is listed and gets its optimal run; without (the 'Create Run' button, or a
\* file without rows), a run on the selected hexagon, which becomes the
\* current run in run creation mode. run_uid is only raised on the last line.
create_run(file_hexagons, selected_hexagon, max_runs) ==
    /\ next_run_uid <= max_runs
    /\ IF file_hexagons # <<>>
       THEN LET new_run == AddAll(Run(next_run_uid), file_hexagons) IN
            /\ runs' = (next_run_uid :> new_run) @@ runs
            /\ run_list' = run_list \cup {next_run_uid}
            /\ \E outcome \in OptimalRunOf(next_run_uid, new_run.hexagons) :
                /\ optimal_runs' = StoreOptimalRun(next_run_uid, outcome)
                /\ next_run_uid' = IF outcome.raised = "none"
                                   THEN next_run_uid + 1
                                   ELSE next_run_uid
            /\ UNCHANGED <<current_run_id, run_creation_mode>>
       ELSE /\ runs' = (next_run_uid :> RunAdd(Run(next_run_uid), selected_hexagon))
                            @@ runs
            /\ current_run_id' = next_run_uid
            /\ next_run_uid' = next_run_uid + 1
            /\ run_creation_mode' = TRUE
            /\ UNCHANGED <<run_list, optimal_runs>>
    /\ UNCHANGED <<tiles, tree_hexagons, path, fov, event, search, selected_run>>

\* Grid.load_run(run_label), the slot of itemClicked: the run of the clicked
\* item becomes the current run, in run creation mode.
load_run(run_id) ==
    /\ current_run_id' = run_id
    /\ run_creation_mode' = TRUE
    /\ selected_run' = run_id
    /\ UNCHANGED <<tiles, tree_hexagons, runs, optimal_runs, path, fov, event,
                   search, next_run_uid, run_list>>

\* Model.update_selection(hexagon) in run creation mode:
\* "self.grid.modify_current_run(hexagon)".
update_selection(hexagon, max_len) ==
    LET current_run == runs[current_run_id] IN
    /\ Len(modify_current_run(current_run, hexagon).hexagons) <= max_len
    /\ runs' = [runs EXCEPT ![current_run_id] =
                    modify_current_run(current_run, hexagon)]
    /\ UNCHANGED <<tiles, tree_hexagons, optimal_runs, run_creation_mode, path, fov,
                   event, search, current_run_id, next_run_uid, run_list,
                   selected_run>>

\* Grid.save_current_run(name), followed by run_list.clearSelection: run
\* creation mode ends, the optimal run of the current run is created, the run
\* is listed.
save_current_run ==
    /\ \E outcome \in create_optimal_run(current_run_id) :
        /\ optimal_runs' = StoreOptimalRun(current_run_id, outcome)
        /\ run_list' = IF outcome.raised = "none"
                       THEN run_list \cup {current_run_id}
                       ELSE run_list
        /\ path' = IF outcome.raised = "none" THEN <<>> ELSE path
    /\ run_creation_mode' = FALSE
    /\ selected_run' = 0
    /\ UNCHANGED <<tiles, tree_hexagons, runs, fov, search, current_run_id,
                   next_run_uid>>

\* The 'Save Run' button.
SaveRunClicked == save_current_run /\ UNCHANGED event

Without(f, k) == [j \in DOMAIN f \ {k} |-> f[j]]

PopOptimalRun_keeps(run_id) == optimal_runs

\* "self.optimal_runs.pop(self.current_run_id, None)"
PopOptimalRun(run_id) == Without(optimal_runs, run_id)

\* Grid.delete_current_run, followed by run_list.clearSelection: run creation
\* mode ends, the current run leaves the list, runs and optimal_runs.
delete_current_run ==
    /\ run_creation_mode' = FALSE
    /\ run_list' = run_list \ {current_run_id}
    /\ runs' = Without(runs, current_run_id)
    /\ optimal_runs' = PopOptimalRun(current_run_id)
    /\ path' = <<>>
    /\ selected_run' = 0
    /\ UNCHANGED <<tiles, tree_hexagons, fov, event, search, current_run_id,
                   next_run_uid>>

\* The first row of tiles is grass and water, the second is blank.
SessionMap ==
    [k \in TileKeys |-> IF k[2] # 0 THEN 5 ELSE IF k = <<0, 0>> THEN 1 ELSE 3]

InitRuns ==
    /\ tiles = SessionMap
    /\ tree_hexagons \in TreeIndexes({"A"})
    /\ runs = <<>>
    /\ optimal_runs = <<>>
    /\ run_creation_mode = FALSE
    /\ path = <<>>
    /\ fov = {}
    /\ event = [op |-> "init"]
    /\ search = [stage |-> "idle"]
    /\ current_run_id = 0
    /\ next_run_uid = 1
    /\ run_list = {}
    /\ selected_run = 0

\* The buttons 'Save Run' and 'Delete Run' are shown in run creation mode and
\* 'Create Run' is enabled outside it.
NextRuns ==
    \/ /\ ~run_creation_mode
       /\ \E h \in Selectable : create_run(<<>>, h, MaxRuns) /\ UNCHANGED runVars
    \/ \E file_hexagons \in RunFiles(SessionLen), h \in Selectable :
            create_run(file_hexagons, h, MaxRuns) /\ UNCHANGED runVars
    \/ \E run_id \in run_list : load_run(run_id) /\ UNCHANGED runVars
    \/ /\ run_creation_mode
       /\ \E h \in Selectable : update_selection(h, SessionLen) /\ UNCHANGED runVars
    \/ run_creation_mode /\ SaveRunClicked /\ UNCHANGED runVars
    \/ run_creation_mode /\ delete_current_run /\ UNCHANGED runVars

InitWindow == RunInit /\ InitRuns

SpecSession == InitWindow /\ [][NextRuns]_vars

-----------------------------------------------------------------------------
(* The session invariant. *)

\* C25: in run creation mode the current run id is a key of runs and the
\* current run has a hexagon; every key of optimal_runs is a key of runs.
C25_SessionInvariant ==
    /\ run_creation_mode =>
        /\ current_run_id \in DOMAIN runs
        /\ runs[current_run_id].hexagons # <<>>
    /\ DOMAIN optimal_runs \subseteq DOMAIN runs

\* A saved run was selected in the list and is the current run again, after
\* another run that had an optimal run was deleted.
C25_Witness ==
    /\ run_creation_mode
    /\ current_run_id \in DOMAIN optimal_runs
    /\ \E run_id \in 1..(next_run_uid - 1) : run_id \notin DOMAIN runs
    /\ run_list = {current_run_id}

-----------------------------------------------------------------------------
(* Model.save_run_to_file: the file written for the run selected in the    *)
(* list. A row holds the columns of a hexagon of the run and, next to      *)
(* them, the columns of the hexagon of the optimal run with the same       *)
(* index; <<>> stands for the four optimal columns written as empty        *)
(* strings. The footer holds the two lengths.                              *)

\* ribbon_collected = ""
NoValue == ""

\* The ribbon column of the hexagon with index idx: its tree number, when no
\* earlier hexagon had it.
RibbonCollected(hs, idx) ==
    LET tree_number == get_tree_number(hs[idx]) IN
    IF /\ tree_number # False
       /\ \A j \in 1..(idx - 1) : get_tree_number(hs[j]) # tree_number
    THEN tree_number
    ELSE NoValue

Columns(hex) ==
    <<hex[1], hex[2], get_gps_coords(hex)[1], get_gps_coords(hex)[2]>>

\* The rows and the footer written: "for idx, hex in enumerate(
\* run_to_be_saved.get_hexagons()): ... if idx < len(optimal_run.
\* get_hexagons()): ... else: ...".
save_run_to_file(run_to_be_saved, optimal_run) ==
    LET hs == run_to_be_saved.hexagons
        os == optimal_run.hexagons
    IN [rows |-> [idx \in 1..Len(hs) |->
                    [recorded |-> Columns(hs[idx]),
                     ribbon |-> RibbonCollected(hs, idx),
                     optimal |-> IF idx <= Len(os) THEN Columns(os[idx]) ELSE <<>>,
                     optimal_ribbon |-> IF idx <= Len(os)
                                        THEN RibbonCollected(os, idx)
                                        ELSE NoValue]],
        length |-> Len(hs) * hex_width,
        optimal_length |-> Len(os) * hex_width]

NoFile ==
    [op |-> "init", raised |-> "none", written |-> FALSE, run_id |-> 0,
     optimal_run |-> <<>>, file |-> [rows |-> <<>>, length |-> 0, optimal_length |-> 0]]

\* The 'Save Run to File' button: its slots in the order they were connected,
\* save_run_to_file, then Grid.save_current_run, then clearSelection.
\* save_run_to_file reads the run and the optimal run of the selected item
\* (KeyError when it has no optimal run) and writes the file unless the file
\* dialog is cancelled.
SaveToFileClicked(file_chosen) ==
    /\ event' =
        IF selected_run \notin DOMAIN optimal_runs
        THEN [NoFile EXCEPT !.op = "save_run_to_file", !.raised = "KeyError",
                            !.run_id = selected_run]
        ELSE IF ~file_chosen
        THEN [NoFile EXCEPT !.op = "save_run_to_file", !.run_id = selected_run]
        ELSE [op |-> "save_run_to_file", raised |-> "none", written |-> TRUE,
              run_id |-> selected_run,
              optimal_run |-> optimal_runs[selected_run].hexagons,
              file |-> save_run_to_file(runs[selected_run],
                                        optimal_runs[selected_run])]
    /\ save_current_run

\* Three tiles of grass in a line, the fourth tile blank.
FileMap == [k \in TileKeys |-> IF k = <<1, 1>> THEN 5 ELSE 1]

InitFile ==
    /\ tiles = FileMap
    /\ tree_hexagons \in TreeIndexes({"A"})
    /\ runs = <<>>
    /\ optimal_runs = <<>>
    /\ run_creation_mode = FALSE
    /\ path = <<>>
    /\ fov = {}
    /\ event = NoFile
    /\ search = [stage |-> "idle"]
    /\ current_run_id = 0
    /\ next_run_uid = 1
    /\ run_list = {}
    /\ selected_run = 0

\* The session of the first run: 'Save Run to File' is shown from the click
\* on an item of the list until the run is saved or deleted.
NextFile ==
    \/ /\ ~run_creation_mode
       /\ \E h \in Selectable : create_run(<<>>, h, run_uid) /\ UNCHANGED runVars
    \/ \E file_hexagons \in RunFiles(SessionLen), h \in Selectable :
            create_run(file_hexagons, h, run_uid) /\ UNCHANGED runVars
    \/ \E run_id \in run_list : load_run(run_id) /\ UNCHANGED runVars
    \/ /\ run_creation_mode
       /\ \E h \in Selectable : update_selection(h, MaxLen) /\ UNCHANGED runVars
    \/ run_creation_mode /\ SaveRunClicked /\ UNCHANGED runVars
    \/ run_creation_mode /\ delete_current_run /\ UNCHANGED runVars
    \/ /\ selected_run # 0
       /\ \E file_chosen \in BOOLEAN : SaveToFileClicked(file_chosen) /\ UNCHANGED runVars

InitSaving == RunInit /\ InitFile

SpecFile == InitSaving /\ [][NextFile]_vars

-----------------------------------------------------------------------------
(* Claims about the file of a run. *)

Written == event.op = "save_run_to_file" /\ event.written

\* The hexagons of the run in the rows of the file.
RecordedInFile ==
    [i \in 1..Len(event.file.rows) |->
        <<event.file.rows[i].recorded[1], event.file.rows[i].recorded[2]>>]

\* C22: the optimal columns and the optimal length of a written file are those
\* of an optimal run create_optimal_run builds for the hexagons of the run in
\* the rows of the same file.
C22_FileConsistent ==
    Written =>
        \E outcome \in OptimalRunOf(event.run_id, RecordedInFile) :
            LET os == outcome.optimal_run.hexagons IN
            /\ outcome.raised = "none"
            /\ event.file.optimal_length = Len(os) * hex_width
            /\ \A i \in 1..Len(event.file.rows) :
                event.file.rows[i].optimal
                    = IF i <= Len(os) THEN Columns(os[i]) ELSE <<>>

\* C24: every hexagon of the optimal run is written in the optimal columns of
\* the row with its index, the rows after the end of the optimal run have
\* blank optimal columns, and the number of rows with optimal columns times
\* the hexagon width is the optimal length of the footer.
C24_WholeOptimalRun ==
    Written =>
        LET rows == event.file.rows
            os == event.optimal_run
        IN /\ \A j \in 1..Len(os) :
                j <= Len(rows) /\ rows[j].optimal = Columns(os[j])
           /\ \A i \in 1..Len(rows) : i > Len(os) => rows[i].optimal = <<>>
           /\ Cardinality({i \in 1..Len(rows) : rows[i].optimal # <<>>}) * hex_width
                = event.file.optimal_length

-----------------------------------------------------------------------------
(* The field of view and the keys of tiles. *)

\* C23: after update_fov on a selected tile every hexagon of the field of
\* view is a key of tiles, and the lookup of the tiles of the field of view
\* has not ended with KeyError.
C23_FovOnMap ==
    event.op = "update_fov" =>
        /\ fov \subseteq DOMAIN tiles
        /\ event.raised = "none"
====
